---- MODULE Spec2Model ----
(***************************************************************************)
(* LIEF::MachO::RelocationFixup (src/MachO/RelocationFixup.cpp): a         *)
(* chained-fixup rebase record.  A record is a tag (rtypes_), an owning    *)
(* raw pointer to a bit-packed payload (the anonymous pointer union), the  *)
(* image base and the record's offset in the image.                        *)
(*                                                                         *)
(* 64-bit quantities are bit vectors: a sequence of 0/1 of length 64,      *)
(* least significant bit first, so that arithmetic is modulo 2^64 and a    *)
(* bit-field store truncates exactly as the C++ bit-field does.            *)
(***************************************************************************)
EXTENDS Integers, Sequences, FiniteSets, TLC

------------------------------------------------------------------------------
(* uint64_t arithmetic.  A word is the set of the positions of its set     *)
(* bits, a subset of 0..63, so that equal words are equal sets.            *)

W == 64

Bit(v, i) == IF i \in v THEN 1 ELSE 0

Zero == {}

\* bits lo .. lo+w-1 of a word, as a w-bit field (the truncation a store to a
\* bit-field of width w performs, for lo = 0)
Field(v, lo, w) == {i - lo : i \in {j \in v : j >= lo /\ j < lo + w}}

\* x << k, truncated to 64 bits
Shl(x, k) == {i + k : i \in {j \in x : j + k < W}}

\* bitwise or
Or(x, y) == x \cup y

RECURSIVE AddFrom(_, _, _, _)
AddFrom(a, b, i, c) ==
  IF i = W THEN {}
  ELSE LET s == Bit(a, i) + Bit(b, i) + c
       IN  (IF s % 2 = 1 THEN {i} ELSE {}) \cup AddFrom(a, b, i + 1, s \div 2)

\* a + b modulo 2^64
Add(a, b) == AddFrom(a, b, 0, 0)

RECURSIVE SubFrom(_, _, _, _)
SubFrom(a, b, i, brw) ==
  IF i = W THEN {}
  ELSE LET d == Bit(a, i) - Bit(b, i) - brw
       IN  (IF d % 2 = 1 THEN {i} ELSE {}) \cup SubFrom(a, b, i + 1, IF d < 0 THEN 1 ELSE 0)

\* a - b modulo 2^64
Sub(a, b) == SubFrom(a, b, 0, 0)

RECURSIVE GeqFrom(_, _, _)
GeqFrom(a, b, i) ==
  IF i < 0 THEN TRUE
  ELSE IF Bit(a, i) # Bit(b, i) THEN Bit(a, i) > Bit(b, i)
  ELSE GeqFrom(a, b, i - 1)

\* a >= b, unsigned
Geq(a, b) == GeqFrom(a, b, W - 1)

------------------------------------------------------------------------------
(* Payload layouts of namespace details (the dyld_chained_ptr structs).    *)
(* Every field is the set of its set bits, within the field's width.       *)

ARM64E_TARGET_BITS == 43
AUTH_TARGET_BITS   == 32
PTR64_TARGET_BITS  == 36
PTR32_TARGET_BITS  == 26
HIGH8_BITS         == 8
HIGH8_SHIFT        == 56

Arm64eRebase(T, H, N) ==
  [target |-> T, high8 |-> H, next |-> N,
   bind |-> {}, auth |-> {}]

Arm64eAuthRebase(T, D, A, K, N) ==
  [target |-> T, diversity |-> D, addrDiv |-> A,
   key |-> K, next |-> N, bind |-> {}, auth |-> {0}]

Ptr64Rebase(T, H, N) ==
  [target |-> T, high8 |-> H, reserved |-> {},
   next |-> N, bind |-> {}]

Ptr32Rebase(T, N) ==
  [target |-> T, next |-> N, bind |-> {}]

\* dyld_chained_ptr_arm64e::unpack_target / dyld_chained_ptr_generic64::unpack_target
UnionUnpackTarget(p) == Or(Shl(p.high8, HIGH8_SHIFT), p.target)

\* unpack_target(const dyld_chained_ptr_64_rebase&), unpack_target(const dyld_chained_ptr_arm64e_rebase&)
unpack_target(rebase) == LET value == rebase IN UnionUnpackTarget(value)

\* pack_target(dyld_chained_ptr_arm64e_rebase&, uint64_t): the stores to the
\* bit-fields truncate to the fields' widths
pack_target_arm64e(rebase, value) ==
  [rebase EXCEPT !.target = Field(value, 0, ARM64E_TARGET_BITS),
                 !.high8  = Field(value, HIGH8_SHIFT, HIGH8_BITS)]

\* pack_target(dyld_chained_ptr_64_rebase&, uint64_t)
pack_target_64(rebase, value) ==
  [rebase EXCEPT !.target = Field(value, 0, PTR64_TARGET_BITS),
                 !.high8  = Field(value, HIGH8_SHIFT, HIGH8_BITS)]

------------------------------------------------------------------------------
(* Bounds and input samples                                                *)

NRec     == 2      \* record slots (objects that may exist at once)
MaxAlloc == 3      \* payload cells the free store can hand out
MaxOps   == 4      \* operations in one run

Rec  == 1..NRec
Addr == 1..MaxAlloc
NULL == 0

KnownTypes == {"ARM64E_REBASE", "ARM64E_AUTH_REBASE", "PTR64_REBASE", "PTR32_REBASE"}
PackTypes  == {"ARM64E_REBASE", "ARM64E_AUTH_REBASE", "PTR64_REBASE"}

Base1 == {32}      \* 0x100000000
Base2 == {14}      \* 0x4000

Vals == { {12},            \* 0x1000, below both bases
          {12, 32},        \* 0x100001000
          {4, 32, 56},     \* 0x100000100000010: the relative value needs high8
          {32, 44} }       \* 0x100100000000: wider than every target field

Addrs == { {12}, {12, 32} }

Ctors == { <<"DYLD_CHAINED_PTR_ARM64E", Base1>>, <<"DYLD_CHAINED_PTR_64", Base2>> }

Samples(kind) ==
  CASE kind = "ARM64E_REBASE" ->
         { Arm64eRebase({12}, {}, {1}), Arm64eRebase({4, 42}, {7}, {0, 10}) }
    [] kind = "ARM64E_AUTH_REBASE" ->
         { Arm64eAuthRebase({12}, {0, 15}, {0}, {1}, {2}),
           Arm64eAuthRebase({31}, {3}, {}, {0}, {10}) }
    [] kind = "PTR64_REBASE" ->
         { Ptr64Rebase({12}, {}, {3}), Ptr64Rebase({4}, {0}, {0, 11}) }
    [] kind = "PTR32_REBASE" ->
         { Ptr32Rebase({12}, {1}), Ptr32Rebase({25}, {4}) }
    [] OTHER -> { Ptr32Rebase({}, {}) }

\* the payloads the chain traversal hands to set()
SetInputs(kind) ==
  CASE kind = "ARM64E_REBASE"      -> { Arm64eRebase({4, 42}, {7}, {0, 10}) }
    [] kind = "ARM64E_AUTH_REBASE" -> { Arm64eAuthRebase({12}, {0, 15}, {0}, {1}, {2}) }
    [] kind = "PTR64_REBASE"       -> { Ptr64Rebase({12}, {}, {3}), Ptr64Rebase({4}, {0}, {0, 11}) }
    [] kind = "PTR32_REBASE"       -> { Ptr32Rebase({25}, {4}) }
    [] OTHER                       -> {}

------------------------------------------------------------------------------
(* State                                                                   *)

VARIABLES
  recs,     \* slot -> RelocationFixup object (or a free slot)
  heap,     \* address -> payload cell of the free store
  lastOp,   \* the operation just performed, its arguments, result and diagnostic
  nops      \* operations performed so far

vars == <<recs, heap, lastOp, nops>>

NoRec ==
  [st |-> "free", ptr_fmt |-> "none", imagebase |-> Zero, offset |-> Zero,
   rtypes |-> "UNKNOWN", ptr |-> NULL]

NoCell == [st |-> "unalloc", kind |-> "UNKNOWN", val |-> Ptr32Rebase({}, {}), releases |-> 0]

Op(op, r, other, arg, ret, diag) ==
  [op |-> op, r |-> r, other |-> other, arg |-> arg, ret |-> ret, diag |-> diag]

Init ==
  /\ recs = [r \in Rec |-> NoRec]
  /\ heap = [a \in Addr |-> NoCell]
  /\ lastOp = Op("init", 0, 0, Zero, Zero, "none")
  /\ nops = 0

------------------------------------------------------------------------------
(* Free store                                                              *)

Live(r) == recs[r].st = "live"

\* storage for a new object: slots only name objects, so a new object takes the
\* lowest slot that holds none
IsNewRec(r) == ~Live(r) /\ \A q \in Rec : ~Live(q) => r <= q

HasFree == \E a \in Addr : heap[a].st = "unalloc"

\* new T{val}: the lowest address never handed out
NewAddr == CHOOSE a \in Addr : heap[a].st = "unalloc" /\ \A b \in Addr : heap[b].st = "unalloc" => a <= b

New(h, a, kind, val) ==
  [h EXCEPT ![a] = [st |-> "live", kind |-> kind, val |-> val, releases |-> 0]]

\* delete p: releases the cell; deleting a released cell is counted, not hidden
Delete(h, p) ==
  IF p = NULL THEN h
  ELSE [h EXCEPT ![p].st = "freed", ![p].releases = @ + 1]

PayloadLive(rec) ==
  /\ rec.ptr # NULL
  /\ heap[rec.ptr].st = "live"
  /\ heap[rec.ptr].kind = rec.rtypes

\* *p read as a payload of the given type: the cell's contents while the cell is
\* live and of that type, any bit pattern of that type otherwise
Deref(p, kind) ==
  IF p # NULL /\ heap[p].st = "live" /\ heap[p].kind = kind
  THEN {heap[p].val} ELSE Samples(kind)

\* *p = val: lands in the cell while it is live; a store to released memory has
\* no effect a later defined read can see
Store(h, p, val) ==
  IF p # NULL /\ h[p].st = "live" THEN [h EXCEPT ![p].val = val] ELSE h

------------------------------------------------------------------------------
(* Member functions, as functions of the object and the payload it reads   *)

\* variant: the value is packed as given, the image base is never subtracted
RelTarget_NoSub(target, imagebase) == target

\* rel_target of target(uint64_t): an absolute value is made relative, a value
\* below the image base is taken as already relative
RelTarget(target, imagebase) ==
  IF Geq(target, imagebase) THEN Sub(target, imagebase) ELSE target

\* variant: the decoded relative target is returned without the image base
TargetValue_NoBase(rec, p) ==
  CASE rec.rtypes \in {"ARM64E_REBASE", "PTR64_REBASE"}      -> unpack_target(p)
    [] rec.rtypes \in {"ARM64E_AUTH_REBASE", "PTR32_REBASE"} -> p.target
    [] OTHER                                                 -> Zero

\* uint64_t target() const, given the payload *ptr
TargetValue(rec, p) ==
  CASE rec.rtypes = "ARM64E_REBASE"      -> Add(rec.imagebase, unpack_target(p))
    [] rec.rtypes = "ARM64E_AUTH_REBASE" -> Add(rec.imagebase, p.target)
    [] rec.rtypes = "PTR64_REBASE"       -> Add(rec.imagebase, unpack_target(p))
    [] rec.rtypes = "PTR32_REBASE"       -> Add(rec.imagebase, p.target)
    [] OTHER                             -> Zero

\* the diagnostic target() const emits
TargetGetDiag(rtypes) == IF rtypes = "UNKNOWN" THEN "error" ELSE "none"

\* variant: the store is as wide as the word above the target and spills into
\* the diversity field
AuthTargetStore_Spill(p, rel) ==
  [p EXCEPT !.target = Field(rel, 0, AUTH_TARGET_BITS),
            !.diversity = Field(rel, AUTH_TARGET_BITS, 16)]

\* arm64_auth_rebase_->target = rel_target: a store to the 32-bit bit-field
AuthTargetStore(p, rel) == [p EXCEPT !.target = Field(rel, 0, AUTH_TARGET_BITS)]

\* variant: the PTR32_REBASE branch stores the target like the other branches
TargetSetPayload_Ptr32(rec, p, target) ==
  CASE rec.rtypes = "ARM64E_REBASE"      -> pack_target_arm64e(p, RelTarget(target, rec.imagebase))
    [] rec.rtypes = "ARM64E_AUTH_REBASE" -> AuthTargetStore(p, RelTarget(target, rec.imagebase))
    [] rec.rtypes = "PTR64_REBASE"       -> pack_target_64(p, RelTarget(target, rec.imagebase))
    [] rec.rtypes = "PTR32_REBASE"       ->
         [p EXCEPT !.target = Field(RelTarget(target, rec.imagebase), 0, PTR32_TARGET_BITS)]
    [] OTHER                             -> p

\* void target(uint64_t): the payload *ptr after the call, given it before.
\* The PTR32_REBASE branch returns without a store.
TargetSetPayload(rec, p, target) ==
  CASE rec.rtypes = "ARM64E_REBASE"      -> pack_target_arm64e(p, RelTarget(target, rec.imagebase))
    [] rec.rtypes = "ARM64E_AUTH_REBASE" -> AuthTargetStore(p, RelTarget(target, rec.imagebase))
    [] rec.rtypes = "PTR64_REBASE"       -> pack_target_64(p, RelTarget(target, rec.imagebase))
    [] OTHER                             -> p

\* the diagnostic target(uint64_t) emits
TargetSetDiag(rtypes) ==
  CASE rtypes = "PTR32_REBASE" -> "warn"
    [] rtypes = "UNKNOWN"      -> "error"
    [] OTHER                   -> "none"

\* uint64_t address() const
AddressValue(rec) == Add(rec.imagebase, rec.offset)

\* variant: the guard of target(uint64_t) applied to the address
AddressSetRec_Guarded(rec, address) ==
  [rec EXCEPT !.offset = IF Geq(address, rec.imagebase)
                         THEN Sub(address, rec.imagebase) ELSE address]

\* void address(uint64_t)
AddressSetRec(rec, address) == [rec EXCEPT !.offset = Sub(address, rec.imagebase)]

\* RelocationFixup(DYLD_CHAINED_PTR_FORMAT, uint64_t); the members the
\* constructor does not name take their default member initialisers
Constructed(fmt, imagebase) ==
  [st |-> "live", ptr_fmt |-> fmt, imagebase |-> imagebase, offset |-> Zero,
   rtypes |-> "UNKNOWN", ptr |-> NULL]

\* variant: the pointer is copied, not the payload
CopyConstructed_Shallow(other, a) ==
  [st |-> "live", ptr_fmt |-> other.ptr_fmt, imagebase |-> other.imagebase,
   offset |-> other.offset, rtypes |-> other.rtypes, ptr |-> other.ptr]

\* RelocationFixup(const RelocationFixup&), with a the address of the new payload
CopyConstructed(other, a) ==
  [st |-> "live", ptr_fmt |-> other.ptr_fmt, imagebase |-> other.imagebase,
   offset |-> other.offset, rtypes |-> other.rtypes,
   ptr |-> IF other.rtypes = "UNKNOWN" THEN NULL ELSE a]

\* variant: imagebase_ is left out of the assignment
CopyAssigned_KeepBase(this, other, a) ==
  [this EXCEPT !.ptr_fmt = other.ptr_fmt, !.offset = other.offset,
               !.rtypes = other.rtypes,
               !.ptr = IF other.rtypes = "UNKNOWN" THEN @ ELSE a]

\* operator=(const RelocationFixup&) past the self-assignment test
CopyAssigned(this, other, a) ==
  [this EXCEPT !.ptr_fmt = other.ptr_fmt, !.imagebase = other.imagebase,
               !.offset = other.offset, !.rtypes = other.rtypes,
               !.ptr = IF other.rtypes = "UNKNOWN" THEN @ ELSE a]

\* the defaulted move operations: a memberwise move of scalars and raw
\* pointers, which is a copy and leaves the source as it was
MovedFrom(other) == other
MovedInto(other) == [other EXCEPT !.st = "live"]

\* void set(const details::dyld_chained_ptr_...&)
SetRec(rec, kind, a) == [rec EXCEPT !.rtypes = kind, !.ptr = a]

\* ~RelocationFixup()
Destructed(h, rec) == IF rec.rtypes = "UNKNOWN" THEN h ELSE Delete(h, rec.ptr)

------------------------------------------------------------------------------
(* Operations                                                              *)

Step == /\ nops < MaxOps
        /\ nops' = nops + 1

Construct(r, fmt, base) ==
  /\ Step
  /\ IsNewRec(r)
  /\ recs' = [recs EXCEPT ![r] = Constructed(fmt, base)]
  /\ lastOp' = Op("construct", r, 0, base, Zero, "none")
  /\ UNCHANGED heap

CopyConstructStep(dst, src, op) ==
  /\ Step
  /\ IsNewRec(dst) /\ Live(src)
  /\ lastOp' = Op(op, dst, src, Zero, Zero, "none")
  /\ IF recs[src].rtypes = "UNKNOWN"
     THEN /\ recs' = [recs EXCEPT ![dst] = CopyConstructed(recs[src], NULL)]
          /\ UNCHANGED heap
     ELSE /\ HasFree
          /\ \E p \in Deref(recs[src].ptr, recs[src].rtypes) :
               heap' = New(heap, NewAddr, recs[src].rtypes, p)
          /\ recs' = [recs EXCEPT ![dst] = CopyConstructed(recs[src], NewAddr)]

\* RelocationFixup(const RelocationFixup&); clone() is new RelocationFixup(*this)
CopyConstruct(dst, src) == CopyConstructStep(dst, src, "copy_construct")

CopyAssign(dst, src) ==
  /\ Step
  /\ Live(dst) /\ Live(src)
  /\ lastOp' = Op("copy_assign", dst, src, Zero, Zero, "none")
  /\ IF dst = src \/ recs[src].rtypes = "UNKNOWN"
     THEN /\ recs' = IF dst = src THEN recs
                     ELSE [recs EXCEPT ![dst] = CopyAssigned(recs[dst], recs[src], NULL)]
          /\ UNCHANGED heap
     ELSE /\ HasFree
          /\ \E p \in Deref(recs[src].ptr, recs[src].rtypes) :
               heap' = New(heap, NewAddr, recs[src].rtypes, p)
          /\ recs' = [recs EXCEPT ![dst] = CopyAssigned(recs[dst], recs[src], NewAddr)]

MoveConstruct(dst, src) ==
  /\ Step
  /\ IsNewRec(dst) /\ Live(src)
  /\ recs' = [recs EXCEPT ![dst] = MovedInto(recs[src]), ![src] = MovedFrom(recs[src])]
  /\ lastOp' = Op("move_construct", dst, src, Zero, Zero, "none")
  /\ UNCHANGED heap

MoveAssign(dst, src) ==
  /\ Step
  /\ Live(dst) /\ Live(src) /\ dst # src
  /\ recs' = [recs EXCEPT ![dst] = MovedInto(recs[src]), ![src] = MovedFrom(recs[src])]
  /\ lastOp' = Op("move_assign", dst, src, Zero, Zero, "none")
  /\ UNCHANGED heap

Destroy(r) ==
  /\ Step
  /\ Live(r)
  /\ heap' = Destructed(heap, recs[r])
  /\ recs' = [recs EXCEPT ![r] = NoRec]
  /\ lastOp' = Op("destroy", r, 0, Zero, Zero, "none")

Set(r, kind, val) ==
  /\ Step
  /\ Live(r)
  /\ HasFree
  /\ heap' = New(heap, NewAddr, kind, val)
  /\ recs' = [recs EXCEPT ![r] = SetRec(recs[r], kind, NewAddr)]
  /\ lastOp' = Op("set", r, 0, Zero, Zero, "none")

TargetGet(r) ==
  /\ Step
  /\ Live(r)
  /\ \E p \in Deref(recs[r].ptr, recs[r].rtypes) :
       lastOp' = Op("target_get", r, 0, Zero, TargetValue(recs[r], p),
                    TargetGetDiag(recs[r].rtypes))
  /\ UNCHANGED <<recs, heap>>

TargetSet(r, v) ==
  /\ Step
  /\ Live(r)
  /\ IF recs[r].rtypes = "UNKNOWN"
     THEN UNCHANGED heap
     ELSE \E p \in Deref(recs[r].ptr, recs[r].rtypes) :
            heap' = Store(heap, recs[r].ptr, TargetSetPayload(recs[r], p, v))
  /\ lastOp' = Op("target_set", r, 0, v, Zero, TargetSetDiag(recs[r].rtypes))
  /\ UNCHANGED recs

AddressGet(r) ==
  /\ Step
  /\ Live(r)
  /\ lastOp' = Op("address_get", r, 0, Zero, AddressValue(recs[r]), "none")
  /\ UNCHANGED <<recs, heap>>

AddressSet(r, a) ==
  /\ Step
  /\ Live(r)
  /\ recs' = [recs EXCEPT ![r] = AddressSetRec(recs[r], a)]
  /\ lastOp' = Op("address_set", r, 0, a, Zero, "none")
  /\ UNCHANGED heap

Next ==
  \/ \E r \in Rec, c \in Ctors : Construct(r, c[1], c[2])
  \/ \E dst \in Rec, src \in Rec : CopyConstruct(dst, src)
  \/ \E dst \in Rec, src \in Rec : CopyAssign(dst, src)
  \/ \E dst \in Rec, src \in Rec : MoveConstruct(dst, src)
  \/ \E dst \in Rec, src \in Rec : MoveAssign(dst, src)
  \/ \E r \in Rec : Destroy(r)
  \/ \E r \in Rec, kind \in KnownTypes : \E val \in SetInputs(kind) : Set(r, kind, val)
  \/ \E r \in Rec : TargetGet(r)
  \/ \E r \in Rec, v \in Vals : TargetSet(r, v)
  \/ \E r \in Rec : AddressGet(r)
  \/ \E r \in Rec, a \in Addrs : AddressSet(r, a)

Spec == Init /\ [][Next]_vars

------------------------------------------------------------------------------
(* Properties                                                              *)

Rc(r)      == recs[r]
Payload(r) == heap[recs[r].ptr].val

\* the object owns a live payload of the type its tag names
Populated(r) == Live(r) /\ recs[r].rtypes # "UNKNOWN" /\ PayloadLive(recs[r])

\* the relative value is representable in the target-bearing bits of the encoding
Fits(kind, rel) ==
  CASE kind = "ARM64E_REBASE"      -> rel \cap (43..55) = {}
    [] kind = "ARM64E_AUTH_REBASE" -> rel \subseteq 0..31
    [] kind = "PTR64_REBASE"       -> rel \cap (36..55) = {}
    [] OTHER                       -> FALSE

\* C1 as stated: after target(v) with v >= image_base on a record populated with
\* ARM64E_REBASE, ARM64E_AUTH_REBASE or PTR64_REBASE, target() is v, for every
\* 64-bit v.
C1_RoundTripAll ==
  (/\ lastOp.op = "target_set"
   /\ Populated(lastOp.r)
   /\ Rc(lastOp.r).rtypes \in PackTypes
   /\ Geq(lastOp.arg, Rc(lastOp.r).imagebase))
  => TargetValue(Rc(lastOp.r), Payload(lastOp.r)) = lastOp.arg

\* C1 amended: after target(v) with v >= image_base on a populated record of one
\* of the three encodings, target() is v whenever v - image_base is representable
\* in the encoding's target-bearing bits (bits 0..42 and 56..63 for
\* ARM64E_REBASE, bits 0..31 for ARM64E_AUTH_REBASE, bits 0..35 and 56..63 for
\* PTR64_REBASE).
C1_RoundTripFits ==
  (/\ lastOp.op = "target_set"
   /\ Populated(lastOp.r)
   /\ Rc(lastOp.r).rtypes \in PackTypes
   /\ Geq(lastOp.arg, Rc(lastOp.r).imagebase)
   /\ Fits(Rc(lastOp.r).rtypes, Sub(lastOp.arg, Rc(lastOp.r).imagebase)))
  => TargetValue(Rc(lastOp.r), Payload(lastOp.r)) = lastOp.arg

\* target(0x100000100000010) on an ARM64E_REBASE record based at 0x100000000:
\* the relative value went through high8 and target() gives the value back
C1_Witness ==
  /\ lastOp.op = "target_set"
  /\ Populated(lastOp.r)
  /\ Rc(lastOp.r).rtypes = "ARM64E_REBASE"
  /\ Rc(lastOp.r).imagebase = Base1
  /\ lastOp.arg = {4, 32, 56}
  /\ Payload(lastOp.r).high8 = {0}
  /\ TargetValue(Rc(lastOp.r), Payload(lastOp.r)) = {4, 32, 56}

\* C2: after address(a), for every 64-bit a (also a < image_base), address() is
\* image_base + relative_offset modulo 2^64 and equals a.
C2_AddressRoundTrip ==
  (lastOp.op = "address_set" /\ Live(lastOp.r))
  => /\ AddressValue(Rc(lastOp.r)) = lastOp.arg
     /\ Add(Rc(lastOp.r).imagebase, Rc(lastOp.r).offset) = lastOp.arg

\* address(0x1000) on a record based at 0x100000000: the offset wrapped around
C2_Witness ==
  /\ lastOp.op = "address_set"
  /\ Live(lastOp.r)
  /\ Rc(lastOp.r).imagebase = Base1
  /\ lastOp.arg = {12}
  /\ 63 \in Rc(lastOp.r).offset

\* C3: target() returns image_base + unpack(payload) for the four known
\* encodings of a populated record (a PTR64_REBASE payload with target bits
\* 0x1000 under image base 0x100000000 gives 0x100001000), and returns 0 with
\* an error reported when the encoding is UNKNOWN.
C3_TargetRead ==
  (lastOp.op = "target_get" /\ Live(lastOp.r))
  => LET rec == Rc(lastOp.r)
     IN  /\ rec.rtypes = "UNKNOWN" => lastOp.ret = Zero /\ lastOp.diag = "error"
         /\ Populated(lastOp.r) =>
              LET p == Payload(lastOp.r)
                  rel == IF rec.rtypes \in {"ARM64E_REBASE", "PTR64_REBASE"}
                         THEN p.target \cup {i + 56 : i \in p.high8}
                         ELSE p.target
              IN  /\ lastOp.ret = Add(rec.imagebase, rel)
                  /\ lastOp.diag = "none"
                  /\ (rec.rtypes = "PTR64_REBASE" /\ p.target = {12} /\ p.high8 = {}
                      /\ rec.imagebase = Base1) => lastOp.ret = {12, 32}

C3_Witness ==
  /\ lastOp.op = "target_get"
  /\ Populated(lastOp.r)
  /\ Rc(lastOp.r).rtypes = "PTR64_REBASE"
  /\ Rc(lastOp.r).imagebase = Base1
  /\ Payload(lastOp.r).target = {12}
  /\ lastOp.ret = {12, 32}

\* C4 (invariant I1): a record holds a live payload of the type its tag names if
\* and only if its tag is not UNKNOWN.
C4_TagMatchesPayload ==
  \A r \in Rec : Live(r) =>
    LET rec == recs[r]
        holds == rec.ptr # NULL /\ heap[rec.ptr].st = "live"
    IN  /\ rec.rtypes # "UNKNOWN" => holds /\ heap[rec.ptr].kind = rec.rtypes
        /\ rec.rtypes = "UNKNOWN" => ~holds

\* C5: no allocated payload is left without an owning record, and a record owns
\* at most one payload.
C5_NoLeak ==
  \A a \in Addr : heap[a].st = "live" =>
    \E r \in Rec : Live(r) /\ recs[r].rtypes # "UNKNOWN" /\ recs[r].ptr = a

\* C6: a move leaves the source UNKNOWN without a payload, no two records
\* reference the same payload, and no payload is released more than once.
C6_MoveTransfers ==
  /\ lastOp.op \in {"move_construct", "move_assign"} =>
       recs[lastOp.other].rtypes = "UNKNOWN" /\ recs[lastOp.other].ptr = NULL
  /\ \A r, q \in Rec :
       (r # q /\ Live(r) /\ Live(q) /\ recs[r].ptr # NULL) => recs[r].ptr # recs[q].ptr
  /\ \A a \in Addr : heap[a].releases <= 1

\* C7 as stated: no operation on a record changes the image_base it was
\* constructed with.
C7_ImageBaseImmutable ==
  [][\A r \in Rec : (recs[r].st = "live" /\ recs'[r].st = "live")
        => recs'[r].imagebase = recs[r].imagebase]_vars

\* C7 amended: set, target(v) and address(a) leave image_base as constructed;
\* copy-assignment and move-assignment replace the destination's image_base by
\* the source's.
C7_ImageBaseFrame ==
  [][\A r \in Rec : (recs[r].st = "live" /\ recs'[r].st = "live")
        => IF lastOp'.op \in {"copy_assign", "move_assign"} /\ lastOp'.r = r
           THEN recs'[r].imagebase = recs[lastOp'.other].imagebase
           ELSE recs'[r].imagebase = recs[r].imagebase]_vars

\* a record constructed on one base after copy-assignment from a record on the other
C7_Witness ==
  /\ lastOp.op = "copy_assign"
  /\ lastOp.r # lastOp.other
  /\ Rc(lastOp.r).ptr_fmt = "DYLD_CHAINED_PTR_64"
  /\ Rc(lastOp.r).imagebase = Base2
  /\ Rc(lastOp.other).imagebase = Base2
  /\ nops = 3

\* C8: target(v) on PTR32_REBASE reports a warning, on UNKNOWN an error, and in
\* both cases changes nothing of the record or of any payload.
C8_NoMutation ==
  [][(lastOp'.op = "target_set"
      /\ recs[lastOp'.r].rtypes \in {"PTR32_REBASE", "UNKNOWN"})
     => /\ recs' = recs
        /\ heap' = heap
        /\ lastOp'.diag = IF recs[lastOp'.r].rtypes = "PTR32_REBASE"
                          THEN "warn" ELSE "error"]_vars

C8_Witness ==
  /\ lastOp.op = "target_set"
  /\ Populated(lastOp.r)
  /\ Rc(lastOp.r).rtypes = "PTR32_REBASE"
  /\ lastOp.diag = "warn"
  /\ Payload(lastOp.r).target = {25}

\* the fields of a payload that carry the target
TargetFields(kind) ==
  IF kind = "ARM64E_AUTH_REBASE" THEN {"target"} ELSE {"target", "high8"}

\* C9: target(v) on a populated ARM64E_REBASE, ARM64E_AUTH_REBASE or
\* PTR64_REBASE record changes only the target-bearing fields of its payload:
\* the other payload fields, the record and every other payload stay as they were.
C9_OnlyTargetBits ==
  [][(lastOp'.op = "target_set"
      /\ Populated(lastOp'.r)
      /\ recs[lastOp'.r].rtypes \in PackTypes)
     => LET rec == recs[lastOp'.r]
            old == heap[rec.ptr]
            new == heap'[rec.ptr]
        IN  /\ recs' = recs
            /\ \A a \in Addr \ {rec.ptr} : heap'[a] = heap[a]
            /\ new.st = old.st /\ new.kind = old.kind /\ new.releases = old.releases
            /\ DOMAIN new.val = DOMAIN old.val
            /\ \A f \in DOMAIN old.val \ TargetFields(rec.rtypes) :
                 new.val[f] = old.val[f]]_vars

\* target(0x100000100000010) on an authenticated record based at 0x100000000:
\* the target field is rewritten, the authentication metadata is as set
C9_Witness ==
  /\ lastOp.op = "target_set"
  /\ Populated(lastOp.r)
  /\ Rc(lastOp.r).rtypes = "ARM64E_AUTH_REBASE"
  /\ Payload(lastOp.r).target = {4}
  /\ Payload(lastOp.r).diversity = {0, 15}
  /\ Payload(lastOp.r).key = {1}
  /\ Payload(lastOp.r).next = {2}

\* C10: copy-construction (clone) of a populated record gives a record with the
\* same encoding, payload contents, relative_offset and image_base that owns a
\* payload of its own, and target(v) on, or destruction of, either of the two
\* right after leaves the other's payload alive and its target() as it was.
C10_CopyIndependent ==
  [][/\ (lastOp'.op = "copy_construct" /\ Populated(lastOp'.other))
        => LET d == recs'[lastOp'.r]
               s == recs'[lastOp'.other]
           IN  /\ s = recs[lastOp'.other]
               /\ heap'[s.ptr] = heap[s.ptr]
               /\ d.st = "live"
               /\ d.rtypes = s.rtypes /\ d.ptr_fmt = s.ptr_fmt
               /\ d.imagebase = s.imagebase /\ d.offset = s.offset
               /\ d.ptr # NULL /\ d.ptr # s.ptr
               /\ heap'[d.ptr].st = "live"
               /\ heap'[d.ptr].kind = s.rtypes
               /\ heap'[d.ptr].val = heap'[s.ptr].val
     /\ (/\ lastOp.op = "copy_construct"
         /\ Populated(lastOp.other)
         /\ lastOp'.op \in {"target_set", "destroy"}
         /\ lastOp'.r \in {lastOp.r, lastOp.other})
        => LET q == IF lastOp'.r = lastOp.r THEN lastOp.other ELSE lastOp.r
           IN  /\ recs'[q] = recs[q]
               /\ heap'[recs[q].ptr] = heap[recs[q].ptr]
               /\ heap'[recs[q].ptr].st = "live"
               /\ TargetValue(recs'[q], heap'[recs'[q].ptr].val)
                    = TargetValue(recs[q], heap[recs[q].ptr].val)]_vars

\* a copy whose target was rewritten next to its untouched original
C10_Witness ==
  /\ lastOp.op = "target_set"
  /\ \E r, q \in Rec :
       /\ r # q /\ lastOp.r = r
       /\ Populated(r) /\ Populated(q)
       /\ recs[r].rtypes = "PTR64_REBASE" /\ recs[q].rtypes = "PTR64_REBASE"
       /\ recs[r].ptr > recs[q].ptr
       /\ recs[r].imagebase = recs[q].imagebase
       /\ Payload(q).target = {12}
       /\ Payload(r).target = {4}
       /\ nops = 4

====
